---- MODULE Spec2Model ----
(***************************************************************************)
(* A model of the scene_extrapolation integration                          *)
(* (custom_components/scene_extrapolation/scene.py).                       *)
(*                                                                         *)
(* Times are integer seconds.  A datetime is the number of seconds since   *)
(* local midnight of the target date (86400 and above: the next day).      *)
(* A Python dict is a function whose DOMAIN is the set of its keys.        *)
(* A float quotient n / d is kept exact as the record [num, den], den > 0. *)
(***************************************************************************)
EXTENDS Integers, Sequences, FiniteSets, Bags, TLC

VARIABLES
    pc,                              \* position inside async_activate
    target_seconds,                  \* time of day of self._target_date_time
    month,                           \* target_date_time.month
    latitude,                        \* location_latitude
    solar_events_computed,           \* the event names sun() returned
    solar_events,                    \* dict event name -> datetime
    scene_dusk_minimum_time_of_day,  \* config option, seconds since midnight
    transition,                      \* async_activate argument
    transition_modifier,             \* async_activate argument
    sun_events,                      \* dict event name -> SunEvent.start_time
    time_shift,
    final_time,
    current_sun_event,               \* name of the event get_sun_event(offset=0) returned
    next_sun_event,                  \* name of the event get_sun_event(offset=1) returned
    transition_progress,             \* [raised, num, den]
    from_entity,                     \* the entity's dict in the scene extrapolated from
    to_entity,                       \* the entity's dict in the scene extrapolated to
    scene_transition_progress_percent,  \* [num, den]
    brightness_modifier,
    entity_result,                   \* what process_entity_extrapolation left
    value_call,                      \* one call of extrapolate_value
    handler_call,                    \* one call of the turn_on service handler
    nightlights_boolean,             \* the nightlights input_boolean is "on"
    scene_config,                    \* config entry: event name -> scene entity id
    scenes,                          \* loaded scenes: scene id -> entities dict
    from_scene_id,                   \* the scene passed as from_scene
    to_scene_id,                     \* the scene passed as to_scene
    scenes_at_call,                  \* the two scenes as extrapolate_entities received them
    results,                         \* finished extrapolation tasks: entity id -> result
    entity_changes,                  \* entity id -> update, after the first gather
    apply_tasks,                     \* apply_single_entity tasks: entity id -> position
    service_calls,                   \* bag of the hass.services.async_call calls made
    failed_calls                     \* entity ids whose service call raised

timeData == <<solar_events_computed, target_seconds, month, latitude, solar_events,
               scene_dusk_minimum_time_of_day, transition, transition_modifier,
               sun_events, time_shift, final_time, current_sun_event,
               next_sun_event, transition_progress>>

timeVars == <<pc, solar_events_computed, target_seconds, month, latitude, solar_events,
              scene_dusk_minimum_time_of_day, transition, transition_modifier,
              sun_events, time_shift, final_time, current_sun_event,
              next_sun_event, transition_progress>>

entityVars == <<from_entity, to_entity, scene_transition_progress_percent,
                brightness_modifier, entity_result>>

sceneVars == <<nightlights_boolean, scene_config, scenes, from_scene_id,
               to_scene_id, scenes_at_call, results, entity_changes, apply_tasks, service_calls,
               failed_calls>>

vars == <<timeVars, entityVars, value_call, handler_call, sceneVars>>

-----------------------------------------------------------------------------
(* Bounds of the model *)

\* target times are drawn from a grid of this many points over the day
TimeSlots == 6

\* progress values are drawn from a grid of this many steps over 0..100
ProgressSlots == 4

\* brightness values are drawn from a grid of this many steps over 0..255
BrightnessSlots == 3

-----------------------------------------------------------------------------
(* Program constants *)

SecondsPerDay == 86400

event_order == <<"dawn", "sunrise", "noon", "sunset", "dusk">>

EventNames == {event_order[i] : i \in 1..Len(event_order)}

previous_events ==
    [e \in {"sunrise", "noon", "sunset", "dusk"} |->
        CASE e = "sunrise" -> "dawn"
          [] e = "noon"    -> "sunrise"
          [] e = "sunset"  -> "noon"
          [] e = "dusk"    -> "sunset"]

HM(hour, minute) == hour * 3600 + minute * 60

Max(a, b) == IF a >= b THEN a ELSE b
Min(a, b) == IF a <= b THEN a ELSE b
Abs(a) == IF a < 0 THEN -a ELSE a

\* Python int(n / d) for d > 0: truncation toward zero
TruncDiv(n, d) == IF n >= 0 THEN n \div d ELSE -((-n) \div d)

RECURSIVE GCD(_, _)
GCD(a, b) == IF b = 0 THEN Abs(a) ELSE GCD(b, a % b)

\* the quotient n / d, d > 0, in lowest terms
Fraction(n, d) ==
    LET g == GCD(n, d)
    IN  [num |-> n \div g, den |-> d \div g]

\* Python round(n / d) for d > 0: round half to even
RoundHalfEven(n, d) ==
    LET q == n \div d
        r == n - q * d
    IN  IF 2 * r < d THEN q
        ELSE IF 2 * r > d THEN q + 1
        ELSE IF q % 2 = 0 THEN q ELSE q + 1

-----------------------------------------------------------------------------
(* SolarTimeline: async_activate, "Calculate solar events" *)

is_northern_hemisphere(lat) == lat >= 0

is_winter(lat, m) ==
    IF is_northern_hemisphere(lat)
    THEN m \in {10, 11, 12, 1, 2, 3}
    ELSE m \in {4, 5, 6, 7, 8, 9}

\* seasonal fallback datetime of an event on the target date
fallback_times(lat, m) ==
    IF is_winter(lat, m)
    THEN [e \in EventNames |->
            CASE e = "dawn"    -> HM(8, 45)
              [] e = "sunrise" -> HM(10, 30)
              [] e = "noon"    -> HM(12, 0)
              [] e = "sunset"  -> HM(13, 0)
              [] e = "dusk"    -> HM(22, 0)]
    ELSE [e \in EventNames |->
            CASE e = "dawn"    -> HM(2, 15)
              [] e = "sunrise" -> HM(4, 0)
              [] e = "noon"    -> HM(13, 0)
              [] e = "sunset"  -> HM(22, 0)
              [] e = "dusk"    -> HM(23, 55)]

\* the fallback_time of one missing event, given the dict filled so far
fallback_time(events, event_name, lat, m) ==
    LET seasonal_fallback == fallback_times(lat, m)[event_name]
    IN  IF event_name \in DOMAIN previous_events
           /\ previous_events[event_name] \in DOMAIN events
        THEN Max(events[previous_events[event_name]] + HM(0, 30), seasonal_fallback)
        ELSE seasonal_fallback

\* the loop "for event_name in event_order", from position i on
RECURSIVE fill_solar_events(_, _, _, _)
fill_solar_events(events, i, lat, m) ==
    IF i > Len(event_order) THEN events
    ELSE LET event_name == event_order[i]
         IN  IF event_name \in DOMAIN events
             THEN fill_solar_events(events, i + 1, lat, m)
             ELSE fill_solar_events(
                    events @@ (event_name :> fallback_time(events, event_name, lat, m)),
                    i + 1, lat, m)

datetime_to_seconds_since_midnight(datetime_obj) == datetime_obj % SecondsPerDay

\* the five start times with dusk taken as computed, whatever the minimum
build_sun_events_unclamped(events, dusk_minimum) ==
    [e \in EventNames |-> datetime_to_seconds_since_midnight(events[e])]

\* the start_time of the five SunEvent objects
build_sun_events(events, dusk_minimum) ==
    [e \in EventNames |->
        IF e = "dusk"
        THEN Max(datetime_to_seconds_since_midnight(events["dusk"]), dusk_minimum)
        ELSE datetime_to_seconds_since_midnight(events[e])]

-----------------------------------------------------------------------------
(* TimeShiftResolver *)

seconds_since_midnight(target, offset_seconds) ==
    (target + offset_seconds) % SecondsPerDay

\* the time shift with the percentage counted down from 100: the full
\* difference at modifier 0, nothing at +-100
calculate_time_shift_inverted_percent(modifier, events, target) ==
    LET current_time == seconds_since_midnight(target, 0)
        noon_time == events["noon"]
        target_time ==
            IF modifier > 0 THEN noon_time
            ELSE IF current_time < noon_time THEN events["dawn"]
            ELSE events["dusk"]
        time_difference == target_time - current_time
        modifier_percent == 100 - Abs(modifier)
    IN  TruncDiv(time_difference * modifier_percent, 100)

calculate_time_shift_from_transition_modifier(modifier, events, target) ==
    IF modifier = 0 THEN 0
    ELSE LET current_time == seconds_since_midnight(target, 0)
             noon_time == events["noon"]
             target_time ==
                 IF modifier > 0 THEN noon_time
                 ELSE IF current_time < noon_time THEN events["dawn"]
                 ELSE events["dusk"]
             time_difference == target_time - current_time
             modifier_percent == Abs(modifier)
         IN  TruncDiv(time_difference * modifier_percent, 100)

-----------------------------------------------------------------------------
(* EventLocator *)

EventIndex(e) == CHOOSE i \in 1..Len(event_order) : event_order[i] = e

\* sorted(sun_events.values(), key=start_time): a stable sort of the dict's
\* values, which are in insertion order dawn, sunrise, noon, sunset, dusk
SortRank(events, e) ==
    1 + Cardinality({o \in EventNames :
                        \/ events[o] < events[e]
                        \/ events[o] = events[e] /\ EventIndex(o) < EventIndex(e)})

sorted_sun_events(events) ==
    [i \in 1..Len(event_order) |->
        CHOOSE e \in EventNames : SortRank(events, e) = i]

\* closest_match_index, 0-based as in the source (-1 when the first event is
\* already at or after the time)
closest_match_index(sorted, events, seconds) ==
    LET hits == {i \in 1..Len(sorted) : events[sorted[i]] >= seconds}
    IN  IF hits = {} THEN Len(sorted) - 1
        ELSE (CHOOSE i \in hits : \A j \in hits : i <= j) - 1 - 1

\* get_sun_event without the wrap of the index around the end of the list
get_sun_event_no_wrap(events, seconds, offset) ==
    LET sorted == sorted_sun_events(events)
        offset_index == closest_match_index(sorted, events, seconds) + offset
    IN  sorted[Min(offset_index % Len(sorted), Len(sorted) - 1 - offset) + 1]

get_sun_event(events, seconds, offset) ==
    LET sorted == sorted_sun_events(events)
        offset_index == closest_match_index(sorted, events, seconds) + offset
    IN  sorted[(offset_index % Len(sorted)) + 1]

-----------------------------------------------------------------------------
(* ProgressCalculator *)

NoProgress == [raised |-> FALSE, num |-> 0, den |-> 1]

\* the progress calculation without the check of the range [0, 100]
progress_percent_unchecked(current_start, next_start, seconds) ==
    LET at == seconds % SecondsPerDay
        crossing_midnight == current_start > next_start
        between ==
            IF crossing_midnight
            THEN SecondsPerDay - current_start + next_start
            ELSE next_start - current_start
        till_next ==
            IF crossing_midnight
            THEN IF at < next_start
                 THEN next_start - at
                 ELSE SecondsPerDay - at + next_start
            ELSE next_start - at
        progress ==
            IF between = 0 THEN Fraction(0, 1)
            ELSE Fraction(100 * (between - till_next), between)
    IN  [raised |-> FALSE, num |-> progress.num, den |-> progress.den]

\* the progress calculation without the case "already past midnight"
progress_percent_before_midnight_only(current_start, next_start, seconds) ==
    LET at == seconds % SecondsPerDay
        crossing_midnight == current_start > next_start
        between ==
            IF crossing_midnight
            THEN SecondsPerDay - current_start + next_start
            ELSE next_start - current_start
        till_next ==
            IF crossing_midnight
            THEN SecondsPerDay - at + next_start
            ELSE next_start - at
        progress ==
            IF between = 0 THEN Fraction(0, 1)
            ELSE Fraction(100 * (between - till_next), between)
    IN  [raised |-> (progress.num < 0 \/ progress.num > 100 * progress.den),
         num |-> progress.num, den |-> progress.den]

get_scene_transition_progress_percent(current_start, next_start, seconds) ==
    LET at == seconds % SecondsPerDay
        crossing_midnight == current_start > next_start
        between ==
            IF crossing_midnight
            THEN SecondsPerDay - current_start + next_start
            ELSE next_start - current_start
        till_next ==
            IF crossing_midnight
            THEN IF at < next_start
                 THEN next_start - at
                 ELSE SecondsPerDay - at + next_start
            ELSE next_start - at
        \* transition_progress = 100 * elapsed_time / between, or 0
        progress ==
            IF between = 0 THEN Fraction(0, 1)
            ELSE Fraction(100 * (between - till_next), between)
    IN  [raised |-> (progress.num < 0 \/ progress.num > 100 * progress.den),
         num |-> progress.num, den |-> progress.den]

-----------------------------------------------------------------------------
(* AttributeExtrapolator *)

ATTR_ENTITY_ID == "entity_id"
ATTR_STATE == "state"
ATTR_BRIGHTNESS == "brightness"
ATTR_COLOR_MODE == "color_mode"
ATTR_COLOR_TEMP_KELVIN == "color_temp_kelvin"
ATTR_RGB_COLOR == "rgb_color"
ATTR_HS_COLOR == "hs_color"
ATTR_RGBW_COLOR == "rgbw_color"
ATTR_RGBWW_COLOR == "rgbww_color"
ATTR_EFFECT == "effect"
STATE_OFF == "off"
STATE_UNAVAILABLE == "unavailable"
ColorMode_COLOR_TEMP == "color_temp"
ColorMode_HS == "hs"
ColorMode_RGBW == "rgbw"
ColorMode_RGBWW == "rgbww"

\* Python None where a string is expected
NoneStr == "None"

\* comparisons of the float progress with 50
ProgressLE50(p) == p.num <= 50 * p.den
ProgressLT50(p) == p.num < 50 * p.den
ProgressGE50(p) == p.num >= 50 * p.den

\* dict.get(key, default)
Get(d, key, default) == IF key \in DOMAIN d THEN d[key] ELSE default

\* extrapolate_value with the size of the difference, whatever its direction
extrapolate_value_upward_only(from_value, to_value, p) ==
    RoundHalfEven(from_value * 100 * p.den + Abs(to_value - from_value) * p.num,
                  100 * p.den)

\* round(from_value + (to_value - from_value) * progress / 100)
extrapolate_value(from_value, to_value, p) ==
    RoundHalfEven(from_value * 100 * p.den + (to_value - from_value) * p.num,
                  100 * p.den)

\* extrapolate_value on float values q = [num, den]: round() returns an int,
\* kept as the fraction [num, 1]
extrapolate_float_value(from_value, to_value, p) ==
    Fraction(
        RoundHalfEven(
            from_value.num * to_value.den * 100 * p.den
                + (to_value.num * from_value.den - from_value.num * to_value.den) * p.num,
            from_value.den * to_value.den * 100 * p.den),
        1)

extrapolate_number(from_number, to_number, p) ==
    LET final_transition_value == extrapolate_value(from_number, to_number, p)
    IN  [raised |->
            \/ final_transition_value > from_number /\ final_transition_value > to_number
            \/ final_transition_value < from_number /\ final_transition_value < to_number,
         value |-> final_transition_value]

\* extrapolate_brightness without the clamp to 0..255
extrapolate_brightness_unclamped(from_e, to_e, p, modifier) ==
    LET from_brightness == Get(from_e, ATTR_BRIGHTNESS, 0)
        to_brightness == Get(to_e, ATTR_BRIGHTNESS, 0)
        number == extrapolate_number(from_brightness, to_brightness, p)
        scaled == TruncDiv(number.value * (100 + modifier), 100)
    IN  [raised |-> number.raised,
         value |-> IF modifier # 0 THEN scaled ELSE number.value]

extrapolate_brightness(from_e, to_e, p, modifier) ==
    LET from_brightness == Get(from_e, ATTR_BRIGHTNESS, 0)
        to_brightness == Get(to_e, ATTR_BRIGHTNESS, 0)
        number == extrapolate_number(from_brightness, to_brightness, p)
        \* int(final_brightness * (1 + brightness_modifier / 100.0))
        scaled == TruncDiv(number.value * (100 + modifier), 100)
    IN  [raised |-> number.raised,
         value |-> IF modifier # 0 THEN Max(0, Min(255, scaled)) ELSE number.value]

\* extrapolate_state with the flip at 50 instead of just above it
extrapolate_state_flip_at_50(from_e, to_e, p) ==
    LET from_state == IF ATTR_STATE \in DOMAIN from_e
                      THEN from_e[ATTR_STATE] ELSE to_e[ATTR_STATE]
        to_state == IF ATTR_STATE \in DOMAIN to_e
                    THEN to_e[ATTR_STATE] ELSE from_e[ATTR_STATE]
    IN  IF ProgressLT50(p) THEN from_state ELSE to_state

extrapolate_state(from_e, to_e, p) ==
    LET from_state == IF ATTR_STATE \in DOMAIN from_e
                      THEN from_e[ATTR_STATE] ELSE to_e[ATTR_STATE]
        to_state == IF ATTR_STATE \in DOMAIN to_e
                    THEN to_e[ATTR_STATE] ELSE from_e[ATTR_STATE]
    IN  IF ProgressLE50(p) THEN from_state ELSE to_state

extrapolate_effect(from_e, to_e, p) ==
    LET from_effect == IF ATTR_EFFECT \in DOMAIN from_e
                       THEN from_e[ATTR_EFFECT] ELSE to_e[ATTR_EFFECT]
        to_effect == IF ATTR_EFFECT \in DOMAIN to_e
                     THEN to_e[ATTR_EFFECT] ELSE from_e[ATTR_EFFECT]
    IN  IF ProgressLT50(p) THEN from_effect ELSE to_effect

\* the debug call at the end of every colour extrapolator reads
\* final_entity[ATTR_BRIGHTNESS]: a KeyError when no brightness was set
LogsBrightness(final_entity) == ATTR_BRIGHTNESS \in DOMAIN final_entity

extrapolate_temp_kelvin(from_e, to_e, final_entity, p) ==
    IF ATTR_COLOR_TEMP_KELVIN \notin DOMAIN from_e
       /\ ATTR_COLOR_TEMP_KELVIN \notin DOMAIN to_e
    THEN [raised |-> TRUE, value |-> 0]
    ELSE LET from_k == IF ATTR_COLOR_TEMP_KELVIN \in DOMAIN from_e
                       THEN from_e[ATTR_COLOR_TEMP_KELVIN]
                       ELSE to_e[ATTR_COLOR_TEMP_KELVIN]
             to_k == IF ATTR_COLOR_TEMP_KELVIN \in DOMAIN to_e
                     THEN to_e[ATTR_COLOR_TEMP_KELVIN]
                     ELSE from_e[ATTR_COLOR_TEMP_KELVIN]
             number == extrapolate_number(from_k, to_k, p)
         IN  [raised |-> number.raised \/ ~LogsBrightness(final_entity),
              value |-> number.value]

\* extrapolate_rgb, extrapolate_rgbw and extrapolate_rgbww: extrapolate_value
\* on every channel of the attribute
extrapolate_channels(attr, from_e, to_e, final_entity, p) ==
    IF attr \notin DOMAIN from_e /\ attr \notin DOMAIN to_e
    THEN [raised |-> TRUE, value |-> <<>>]
    ELSE LET from_c == IF attr \in DOMAIN from_e THEN from_e[attr] ELSE to_e[attr]
             to_c == IF attr \in DOMAIN to_e THEN to_e[attr] ELSE from_e[attr]
         IN  [raised |-> ~LogsBrightness(final_entity),
              value |-> [i \in DOMAIN from_c |-> extrapolate_value(from_c[i], to_c[i], p)]]

extrapolate_rgb(from_e, to_e, final_entity, p) ==
    extrapolate_channels(ATTR_RGB_COLOR, from_e, to_e, final_entity, p)

\* extrapolate_hs with a side that has no hs_color taken as (0, 0)
extrapolate_hs_missing_as_zero(from_e, to_e, final_entity, p) ==
    IF ATTR_HS_COLOR \notin DOMAIN from_e /\ ATTR_HS_COLOR \notin DOMAIN to_e
    THEN [raised |-> TRUE, value |-> <<>>]
    ELSE LET zero == <<Fraction(0, 1), Fraction(0, 1)>>
             from_hs == IF ATTR_HS_COLOR \in DOMAIN from_e
                        THEN from_e[ATTR_HS_COLOR] ELSE zero
             to_hs == IF ATTR_HS_COLOR \in DOMAIN to_e
                      THEN to_e[ATTR_HS_COLOR] ELSE zero
         IN  [raised |-> ~LogsBrightness(final_entity),
              value |-> [i \in DOMAIN from_hs |->
                            extrapolate_float_value(from_hs[i], to_hs[i], p)]]

\* hue and saturation are floats
extrapolate_hs(from_e, to_e, final_entity, p) ==
    IF ATTR_HS_COLOR \notin DOMAIN from_e /\ ATTR_HS_COLOR \notin DOMAIN to_e
    THEN [raised |-> TRUE, value |-> <<>>]
    ELSE LET from_hs == IF ATTR_HS_COLOR \in DOMAIN from_e
                        THEN from_e[ATTR_HS_COLOR] ELSE to_e[ATTR_HS_COLOR]
             to_hs == IF ATTR_HS_COLOR \in DOMAIN to_e
                      THEN to_e[ATTR_HS_COLOR] ELSE from_e[ATTR_HS_COLOR]
         IN  [raised |-> ~LogsBrightness(final_entity),
              value |-> [i \in DOMAIN from_hs |->
                            extrapolate_float_value(from_hs[i], to_hs[i], p)]]

extrapolate_rgbw(from_e, to_e, final_entity, p) ==
    extrapolate_channels(ATTR_RGBW_COLOR, from_e, to_e, final_entity, p)

extrapolate_rgbww(from_e, to_e, final_entity, p) ==
    extrapolate_channels(ATTR_RGBWW_COLOR, from_e, to_e, final_entity, p)

-----------------------------------------------------------------------------
(* SceneDiffEngine: process_entity_extrapolation, the work on one entity *)

\* the colour mode borrowed from the other side when one side has none
borrow_color_mode(this_e, other_e) ==
    IF ATTR_COLOR_MODE \notin DOMAIN this_e /\ ATTR_COLOR_MODE \in DOMAIN other_e
    THEN this_e @@ (ATTR_COLOR_MODE :> other_e[ATTR_COLOR_MODE])
    ELSE this_e

\* final_color_mode, from the two entities after the borrowing
select_color_mode(from_e, to_e, p) ==
    IF ATTR_COLOR_MODE \in DOMAIN from_e \/ ATTR_COLOR_MODE \in DOMAIN to_e
    THEN IF ProgressGE50(p)
         THEN Get(to_e, ATTR_COLOR_MODE, NoneStr)
         ELSE Get(from_e, ATTR_COLOR_MODE, NoneStr)
    ELSE NoneStr

\* the attribute written for a colour mode and its extrapolation
color_attribute(mode) ==
    CASE mode \in {ColorMode_COLOR_TEMP, ATTR_COLOR_TEMP_KELVIN} -> ATTR_COLOR_TEMP_KELVIN
      [] mode = ATTR_RGB_COLOR   -> ATTR_RGB_COLOR
      [] mode = ColorMode_HS     -> ATTR_HS_COLOR
      [] mode = ColorMode_RGBW   -> ATTR_RGBW_COLOR
      [] mode = ColorMode_RGBWW  -> ATTR_RGBWW_COLOR
      [] OTHER -> NoneStr

extrapolate_color(attr, from_e, to_e, final_entity, p) ==
    CASE attr = ATTR_COLOR_TEMP_KELVIN -> extrapolate_temp_kelvin(from_e, to_e, final_entity, p)
      [] attr = ATTR_RGB_COLOR   -> extrapolate_rgb(from_e, to_e, final_entity, p)
      [] attr = ATTR_HS_COLOR    -> extrapolate_hs(from_e, to_e, final_entity, p)
      [] attr = ATTR_RGBW_COLOR  -> extrapolate_rgbw(from_e, to_e, final_entity, p)
      [] attr = ATTR_RGBWW_COLOR -> extrapolate_rgbww(from_e, to_e, final_entity, p)

\* kind "none": the task returned None; "raised": an exception left the task,
\* entity being final_entity as it was then; "entity": final_entity returned
EntityResult(kind, entity, mode, from_e, to_e) ==
    [kind |-> kind, entity |-> entity, final_color_mode |-> mode,
     from_entity |-> from_e, to_entity |-> to_e]

process_entity_extrapolation(from_entity_id, from_e0, to_e0, p, modifier) ==
    LET entity0 == (ATTR_ENTITY_ID :> from_entity_id)
    IN
    IF \/ ATTR_STATE \in DOMAIN from_e0 /\ from_e0[ATTR_STATE] = STATE_UNAVAILABLE
       \/ ATTR_STATE \in DOMAIN to_e0 /\ to_e0[ATTR_STATE] = STATE_UNAVAILABLE
    THEN EntityResult("none", entity0, NoneStr, from_e0, to_e0)
    ELSE IF ~(ATTR_STATE \in DOMAIN from_e0 /\ ATTR_STATE \in DOMAIN to_e0)
    THEN EntityResult("none", entity0, NoneStr, from_e0, to_e0)
    ELSE
    LET entity1 == entity0 @@ (ATTR_STATE :> extrapolate_state(from_e0, to_e0, p))
        from_e == borrow_color_mode(from_e0, to_e0)
        to_e == borrow_color_mode(to_e0, from_e0)
        final_color_mode == select_color_mode(from_e, to_e, p)
        has_brightness == ATTR_BRIGHTNESS \in DOMAIN from_e \/ ATTR_BRIGHTNESS \in DOMAIN to_e
        brightness == extrapolate_brightness(from_e, to_e, p, modifier)
        entity2 == IF has_brightness /\ ~brightness.raised
                   THEN entity1 @@ (ATTR_BRIGHTNESS :> brightness.value)
                   ELSE entity1
        attr == color_attribute(final_color_mode)
        has_color == attr # NoneStr
        color == extrapolate_color(attr, from_e, to_e, entity2, p)
        entity3 == IF has_color /\ ~color.raised
                   THEN entity2 @@ (attr :> color.value)
                   ELSE entity2
        has_effect == ATTR_EFFECT \in DOMAIN from_e \/ ATTR_EFFECT \in DOMAIN to_e
        entity4 == IF has_effect
                   THEN entity3 @@ (ATTR_EFFECT :> extrapolate_effect(from_e, to_e, p))
                   ELSE entity3
    IN  IF has_brightness /\ brightness.raised
        THEN EntityResult("raised", entity1, final_color_mode, from_e, to_e)
        ELSE IF has_color /\ color.raised
        THEN EntityResult("raised", entity2, final_color_mode, from_e, to_e)
        ELSE EntityResult("entity", entity4, final_color_mode, from_e, to_e)

-----------------------------------------------------------------------------
(* apply_single_entity: the service call for one update *)

ATTR_TRANSITION == "transition"
LIGHT_DOMAIN == "light"
SCENE_DOMAIN == "scene"
SERVICE_TURN_ON == "turn_on"
SERVICE_TURN_OFF == "turn_off"
SERVICE_LOCK == "lock"
SERVICE_UNLOCK == "unlock"
STATE_UNKNOWN == "unknown"
STATE_PROBLEM == "problem"
STATE_OPEN == "open"
STATE_OPENING == "opening"
STATE_CLOSED == "closed"
STATE_CLOSING == "closing"
LockState_JAMMED == "jammed"
LockState_LOCKED == "locked"
LockState_LOCKING == "locking"
LockState_UNLOCKED == "unlocked"
LockState_UNLOCKING == "unlocking"
ColorMode_RGB == "rgb"

\* entity[ATTR_ENTITY_ID].split(".")[0], on the entity ids of the model
domain_of(entity_id) ==
    CASE entity_id = "light.lamp"  -> LIGHT_DOMAIN
      [] entity_id = "light.strip" -> LIGHT_DOMAIN
      [] entity_id = "switch.pump" -> "switch"
      [] entity_id = "lock.door"   -> "lock"
      [] entity_id = "cover.blind" -> "cover"
      [] entity_id = "valve.tap"   -> "valve"
      [] entity_id = "climate.heater" -> "climate"

\* the states apply_single_entity returns on without a call
UnappliedStates == {STATE_UNAVAILABLE, STATE_UNKNOWN, STATE_PROBLEM, LockState_JAMMED}

service_type_of(state, domain) ==
    CASE state = "on" -> SERVICE_TURN_ON
      [] state = "off" -> SERVICE_TURN_OFF
      [] state \in {LockState_LOCKED, LockState_LOCKING} -> SERVICE_LOCK
      [] state \in {LockState_UNLOCKED, LockState_UNLOCKING} -> SERVICE_UNLOCK
      [] state \in {STATE_OPEN, STATE_OPENING} ->
            IF domain = "cover" THEN "open_cover"
            ELSE IF domain = "valve" THEN "open_valve"
            ELSE SERVICE_TURN_ON
      [] state \in {STATE_CLOSED, STATE_CLOSING} ->
            IF domain = "cover" THEN "close_cover"
            ELSE IF domain = "valve" THEN "close_valve"
            ELSE SERVICE_TURN_OFF
      [] OTHER -> NoneStr

\* "value is None": in the scenes of the model only an effect can be None
IsNone(key, value) == key = ATTR_EFFECT /\ value = NoneStr

\* service_data with every attribute of the update kept for turn_off as well
service_data_unstripped(entity, domain, service_type, transition_time) ==
    LET keys == DOMAIN entity \ {ATTR_STATE}
    IN  [key \in {k \in keys : ~IsNone(k, entity[k])} |-> entity[key]]

\* entity_applied as passed to async_call; entity already holds the transition
\* when the domain is light
service_data(entity, domain, service_type, transition_time) ==
    LET keys == DOMAIN entity \ {ATTR_STATE}
    IN  IF domain = LIGHT_DOMAIN /\ service_type = SERVICE_TURN_OFF
        THEN (ATTR_ENTITY_ID :> entity[ATTR_ENTITY_ID])
                @@ (ATTR_TRANSITION :> transition_time)
        ELSE [key \in {k \in keys : ~IsNone(k, entity[k])} |-> entity[key]]

NoServiceCall == [domain |-> NoneStr, service |-> NoneStr, service_data |-> <<>>]

\* apply_single_entity up to its await.  outcome "raised": the argument is an
\* exception object left by gather(return_exceptions=True), and
\* entity[ATTR_ENTITY_ID] raises TypeError; "skipped": return None without a
\* call; "calling": hass.services.async_call has been called with call
apply_single_entity(change, transition_time) ==
    IF change.kind = "raised"
    THEN [outcome |-> "raised", entity |-> change.entity, call |-> NoServiceCall]
    ELSE
    LET entity == change.entity
        domain == domain_of(entity[ATTR_ENTITY_ID])
        state == entity[ATTR_STATE]
        entity_t == IF domain = LIGHT_DOMAIN
                    THEN (ATTR_TRANSITION :> transition_time) @@ entity
                    ELSE entity
        service_type == service_type_of(state, domain)
    IN  IF state \in UnappliedStates
        THEN [outcome |-> "skipped", entity |-> entity, call |-> NoServiceCall]
        ELSE [outcome |-> "calling", entity |-> entity_t,
              call |-> [domain |-> domain, service |-> service_type,
                        service_data |->
                            service_data(entity_t, domain, service_type, transition_time)]]

\* a failed service call that cancels the tasks which have not called yet
after_service_call_cancelling(tasks, entity_id, failed) ==
    [id \in DOMAIN tasks |->
        IF id = entity_id THEN "returned"
        ELSE IF failed /\ tasks[id] = "created" THEN "cancelled"
        ELSE tasks[id]]

\* the try/except around async_call: the task returns True either way
after_service_call(tasks, entity_id, failed) ==
    [tasks EXCEPT ![entity_id] = "returned"]

-----------------------------------------------------------------------------
(* extrapolate_entities: the fan-out over the entities of two scenes *)

\* the loop over to_scene["entities"]: from_scene["entities"] gets a record
\* {"state": "off"} for every entity it lacks
add_missing_entities(from_entities, to_entities) ==
    (* the new keys come last in the dict, which has no order here *)
    [id \in DOMAIN from_entities \cup DOMAIN to_entities |->
        IF id \in DOMAIN from_entities
        THEN from_entities[id]
        ELSE (ATTR_STATE :> STATE_OFF)]

\* to_entity of a task: the scene's dict, or a new {"state": "off"}
to_entity_of(to_entities, from_entity_id) ==
    IF from_entity_id \in DOMAIN to_entities
    THEN to_entities[from_entity_id]
    ELSE (ATTR_STATE :> STATE_OFF)

\* a gather that returns as soon as one task has finished
gather_first_completed(task_results, entity_ids) ==
    entity_ids = {} \/ DOMAIN task_results # {}

\* asyncio.gather(*tasks): every task has finished
gather_all(task_results, entity_ids) == DOMAIN task_results = entity_ids

\* [result for result in results if result is not None]; an exception object
\* is not None
filter_results(task_results) ==
    [id \in {i \in DOMAIN task_results : task_results[i].kind # "none"} |->
        [kind |-> task_results[id].kind, entity |-> task_results[id].entity]]

\* every apply_single_entity task has finished
FinishedApplyStates == {"returned", "skipped", "raised", "cancelled"}

-----------------------------------------------------------------------------
(* get_scene_by_uuid *)

\* get_scene_by_uuid without the error after the search
get_scene_by_uuid_none_only(loaded, uuid) ==
    [raised |-> uuid = NoneStr, scene |-> uuid]

get_scene_by_uuid(loaded, uuid) ==
    [raised |-> uuid = NoneStr \/ uuid \notin DOMAIN loaded, scene |-> uuid]

\* the five lookups in the sun_events dict all return
scenes_resolved(config, loaded) ==
    \A e \in EventNames : ~get_scene_by_uuid(loaded, config[e]).raised

-----------------------------------------------------------------------------
(* Inputs of an activation *)

\* what astral's sun() computes for the date, by kind of day: an equinox at
\* mid latitude, a short winter day and a long summer day at high latitude
AstralDays ==
    { [dawn |-> HM(5, 30), sunrise |-> HM(6, 0), noon |-> HM(12, 0),
       sunset |-> HM(18, 0), dusk |-> HM(18, 30)],
      [dawn |-> HM(11, 40), sunrise |-> HM(11, 50), noon |-> HM(12, 0),
       sunset |-> HM(12, 10), dusk |-> HM(12, 20)],
      [dawn |-> HM(1, 0), sunrise |-> HM(2, 0), noon |-> HM(13, 0),
       sunset |-> HM(23, 30), dusk |-> HM(23, 50)] }

\* the dict left after the try/except around sun(): the events that could be
\* computed (none of them when sun() raised ValueError)
RawSolarEvents ==
    {[e \in present |-> day[e]] : present \in SUBSET EventNames, day \in AstralDays}

TargetTimes ==
    {k * (SecondsPerDay \div TimeSlots) : k \in 0..(TimeSlots - 1)}
        \cup {HM(8, 45), HM(5, 30), SecondsPerDay - 1}

Months == {3, 4, 9, 10}
Latitudes == {-70, 0}
DuskMinimums == {HM(18, 0), HM(22, 0)}
Transitions == {0, 6553}
TransitionModifiers == {-100, 0, 50, 100}

-----------------------------------------------------------------------------
(* async_activate *)

\* the scene entity ids of the config entry: all five configured, the dawn
\* field empty, the dusk field naming a scene that no longer exists
AllConfigured ==
    [e \in EventNames |->
        CASE e = "dawn"    -> "scene.dawn"
          [] e = "sunrise" -> "scene.sunrise"
          [] e = "noon"    -> "scene.noon"
          [] e = "sunset"  -> "scene.sunset"
          [] e = "dusk"    -> "scene.dusk"]

SceneConfigs ==
    { AllConfigured,
      [AllConfigured EXCEPT !["dawn"] = NoneStr],
      [AllConfigured EXCEPT !["dusk"] = "scene.deleted"] }

NIGHTLIGHTS_SCENE == "scene.nightlights"

\* what async_get_in_memory_scenes returns: one dimmable light per scene
LoadedScenes ==
    [id \in {AllConfigured[e] : e \in EventNames} |->
        ("light.lamp" :>
            CASE id = "scene.dawn"    -> (ATTR_STATE :> "on") @@ (ATTR_BRIGHTNESS :> 20)
              [] id = "scene.sunrise" -> (ATTR_STATE :> "on") @@ (ATTR_BRIGHTNESS :> 60)
              [] id = "scene.noon"    -> (ATTR_STATE :> "on") @@ (ATTR_BRIGHTNESS :> 100)
              [] id = "scene.sunset"  -> (ATTR_STATE :> "on") @@ (ATTR_BRIGHTNESS :> 60)
              [] id = "scene.dusk"    -> (ATTR_STATE :> STATE_OFF))]

NoEvents == [e \in EventNames |-> 0]

NoValueCall == [from_value |-> 0, to_value |-> 0, progress |-> 0, result |-> 0]

NoHandlerCall ==
    [entity_ids |-> <<>>, brightness_modifier |-> 0, transition |-> 0,
     transition_modifier |-> 0, position |-> 0, activated |-> <<>>,
     outcome |-> "none"]

NoScenesPassed == [from_scene |-> <<>>, to_scene |-> <<>>]

\* no scene has been loaded and no call has been made
SceneUnused ==
    /\ nightlights_boolean = FALSE
    /\ scene_config = AllConfigured
    /\ scenes = <<>>
    /\ from_scene_id = NoneStr
    /\ to_scene_id = NoneStr
    /\ scenes_at_call = NoScenesPassed
    /\ results = <<>>
    /\ entity_changes = <<>>
    /\ apply_tasks = <<>>
    /\ service_calls = EmptyBag
    /\ failed_calls = {}

NoResult ==
    [kind |-> "none", entity |-> <<>>, final_color_mode |-> NoneStr,
     from_entity |-> <<>>, to_entity |-> <<>>]

\* no entity is being extrapolated
EntityUnused ==
    /\ from_entity = <<>>
    /\ to_entity = <<>>
    /\ scene_transition_progress_percent = Fraction(0, 1)
    /\ brightness_modifier = 0
    /\ entity_result = NoResult

Init ==
    /\ pc = "idle"
    /\ target_seconds = 0
    /\ month = 1
    /\ latitude = 0
    /\ solar_events = <<>>
    /\ solar_events_computed = {}
    /\ scene_dusk_minimum_time_of_day = HM(22, 0)
    /\ transition = 0
    /\ transition_modifier = 0
    /\ sun_events = NoEvents
    /\ time_shift = 0
    /\ final_time = 0
    /\ current_sun_event = "dawn"
    /\ next_sun_event = "dawn"
    /\ transition_progress = NoProgress
    /\ EntityUnused
    /\ value_call = NoValueCall
    /\ handler_call = NoHandlerCall
    /\ SceneUnused

\* the call arrives with the nightlights boolean on: scene.turn_on is called
\* for the nightlights scene and nothing else is read
ActivateNightlights ==
    /\ pc = "idle"
    /\ nightlights_boolean' = TRUE
    /\ scene_config' \in SceneConfigs
    /\ service_calls' = service_calls (+) SetToBag({
            [domain |-> SCENE_DOMAIN, service |-> SERVICE_TURN_ON,
             service_data |-> (ATTR_ENTITY_ID :> NIGHTLIGHTS_SCENE)]})
    /\ pc' = "nightlights"
    /\ UNCHANGED timeData
    /\ UNCHANGED entityVars
    /\ UNCHANGED <<handler_call, value_call, scenes_at_call, scenes, from_scene_id, to_scene_id, results,
                   entity_changes, apply_tasks, failed_calls>>

\* the nightlights call returns or raises, and the error leaves async_activate
NightlightsReturnRaising ==
    /\ pc = "nightlights"
    /\ \E failed \in BOOLEAN :
        /\ failed_calls' = IF failed THEN failed_calls \cup {NIGHTLIGHTS_SCENE}
                           ELSE failed_calls
        /\ pc' = IF failed THEN "failed" ELSE "done"
    /\ UNCHANGED timeData
    /\ UNCHANGED entityVars
    /\ UNCHANGED <<handler_call, value_call, scenes_at_call, nightlights_boolean,
                   scene_config, scenes, from_scene_id, to_scene_id, results,
                   entity_changes, apply_tasks, service_calls>>

\* the nightlights call returns or raises; the error is logged
NightlightsReturn ==
    /\ pc = "nightlights"
    /\ \E failed \in BOOLEAN :
        failed_calls' = IF failed THEN failed_calls \cup {NIGHTLIGHTS_SCENE}
                        ELSE failed_calls
    /\ pc' = "done"
    /\ UNCHANGED timeData
    /\ UNCHANGED entityVars
    /\ UNCHANGED <<handler_call, value_call, scenes_at_call, nightlights_boolean, scene_config, scenes,
                   from_scene_id, to_scene_id, results, entity_changes,
                   apply_tasks, service_calls>>

\* the call arrives with the nightlights off; the scenes are loaded and sun()
\* has been tried
Activate ==
    /\ pc = "idle"
    /\ \E t \in TargetTimes, m \in Months, lat \in Latitudes,
          raw \in RawSolarEvents, dm \in DuskMinimums,
          tr \in Transitions, tm \in TransitionModifiers :
        /\ target_seconds' = t
        /\ month' = m
        /\ latitude' = lat
        /\ solar_events' = raw
        /\ solar_events_computed' = DOMAIN raw
        /\ scene_dusk_minimum_time_of_day' = dm
        /\ transition' = tr
        /\ transition_modifier' = tm
    /\ nightlights_boolean' = FALSE
    /\ scene_config' \in SceneConfigs
    /\ scenes' = LoadedScenes
    /\ pc' = "solar"
    /\ UNCHANGED entityVars
    /\ UNCHANGED <<handler_call, value_call, scenes_at_call, from_scene_id, to_scene_id, results,
                   entity_changes, apply_tasks, service_calls, failed_calls>>
    /\ UNCHANGED <<sun_events, time_shift, final_time, current_sun_event,
                   next_sun_event, transition_progress>>

\* fallbacks for the missing events, then the five SunEvent objects
SolarTimeline ==
    /\ pc = "solar"
    /\ LET filled == fill_solar_events(solar_events, 1, latitude, month)
       IN  /\ solar_events' = filled
           /\ IF scenes_resolved(scene_config, scenes)
              THEN /\ sun_events' = build_sun_events(filled, scene_dusk_minimum_time_of_day)
                   /\ pc' = "shift"
              ELSE \* get_scene_by_uuid raises HomeAssistantError
                   /\ sun_events' = sun_events
                   /\ pc' = "config_error"
    /\ UNCHANGED entityVars
    /\ UNCHANGED <<handler_call, value_call, sceneVars>>
    /\ UNCHANGED <<solar_events_computed, target_seconds, month, latitude, scene_dusk_minimum_time_of_day,
                   transition, transition_modifier, time_shift, final_time,
                   current_sun_event, next_sun_event, transition_progress>>

ResolveTime ==
    /\ pc = "shift"
    /\ LET shift == calculate_time_shift_from_transition_modifier(
                        transition_modifier, sun_events, target_seconds)
       IN  /\ time_shift' = shift
           /\ final_time' = seconds_since_midnight(target_seconds, transition + shift)
    /\ pc' = "locate"
    /\ UNCHANGED entityVars
    /\ UNCHANGED <<handler_call, value_call, sceneVars>>
    /\ UNCHANGED <<solar_events_computed, target_seconds, month, latitude, solar_events,
                   scene_dusk_minimum_time_of_day, transition, transition_modifier,
                   sun_events, current_sun_event, next_sun_event, transition_progress>>

Locate ==
    /\ pc = "locate"
    /\ current_sun_event' = get_sun_event(sun_events, final_time, 0)
    /\ next_sun_event' = get_sun_event(sun_events, final_time, 1)
    /\ pc' = "progress"
    /\ UNCHANGED entityVars
    /\ UNCHANGED <<handler_call, value_call, sceneVars>>
    /\ UNCHANGED <<solar_events_computed, target_seconds, month, latitude, solar_events,
                   scene_dusk_minimum_time_of_day, transition, transition_modifier,
                   sun_events, time_shift, final_time, transition_progress>>

Progress ==
    /\ pc = "progress"
    /\ LET p == get_scene_transition_progress_percent(
                    sun_events[current_sun_event], sun_events[next_sun_event],
                    final_time)
       IN  /\ transition_progress' = p
           /\ pc' = IF p.raised THEN "failed" ELSE "extrapolate"
    /\ UNCHANGED entityVars
    /\ UNCHANGED <<handler_call, value_call, sceneVars>>
    /\ UNCHANGED <<solar_events_computed, target_seconds, month, latitude, solar_events,
                   scene_dusk_minimum_time_of_day, transition, transition_modifier,
                   sun_events, time_shift, final_time, current_sun_event,
                   next_sun_event>>

\* extrapolate_entities is called with the scenes of the two events
CallExtrapolate ==
    /\ pc = "extrapolate"
    /\ LET from_id == get_scene_by_uuid(scenes, scene_config[current_sun_event]).scene
           to_id == get_scene_by_uuid(scenes, scene_config[next_sun_event]).scene
       IN  /\ from_scene_id' = from_id
           /\ to_scene_id' = to_id
           /\ scenes' = [scenes EXCEPT
                            ![from_id] = add_missing_entities(scenes[from_id], scenes[to_id])]
    /\ scenes_at_call' = [from_scene |-> scenes[from_scene_id'],
                           to_scene |-> scenes[to_scene_id']]
    /\ results' = <<>>
    /\ pc' = "tasks"
    /\ UNCHANGED timeData
    /\ UNCHANGED entityVars
    /\ UNCHANGED <<handler_call, value_call, nightlights_boolean, scene_config, entity_changes,
                   apply_tasks, service_calls, failed_calls>>

\* one process_entity_extrapolation task runs; a borrowed color mode is
\* written into the entity's dict inside the scene
ExtrapolateTask ==
    /\ pc = "tasks"
    /\ \E id \in DOMAIN scenes[from_scene_id] \ DOMAIN results :
        LET r == process_entity_extrapolation(
                     id, scenes[from_scene_id][id],
                     to_entity_of(scenes[to_scene_id], id),
                     transition_progress, brightness_modifier)
            written == [scenes EXCEPT ![from_scene_id][id] = r.from_entity]
        IN  /\ results' = results @@ (id :> r)
            /\ scenes' = IF id \in DOMAIN scenes[to_scene_id]
                             /\ to_scene_id # from_scene_id
                          THEN [written EXCEPT ![to_scene_id][id] = r.to_entity]
                          ELSE written
    /\ UNCHANGED timeVars
    /\ UNCHANGED entityVars
    /\ UNCHANGED <<handler_call, value_call, scenes_at_call, nightlights_boolean, scene_config, from_scene_id,
                   to_scene_id, entity_changes, apply_tasks, service_calls,
                   failed_calls>>

\* the gather over the extrapolation tasks returns; apply_entities_parallel
\* creates one task per change, or extrapolate_entities returns
GatherResults ==
    /\ pc = "tasks"
    /\ gather_all(results, DOMAIN scenes[from_scene_id])
    /\ LET changes == filter_results(results)
       IN  /\ entity_changes' = changes
           /\ apply_tasks' = [id \in DOMAIN changes |-> "created"]
           /\ pc' = IF DOMAIN changes = {} THEN "done" ELSE "apply"
    /\ UNCHANGED timeData
    /\ UNCHANGED entityVars
    /\ UNCHANGED <<handler_call, value_call, scenes_at_call, nightlights_boolean, scene_config, scenes,
                   from_scene_id, to_scene_id, results, service_calls, failed_calls>>

\* one apply_single_entity task runs up to its service call
ApplyStart ==
    /\ pc = "apply"
    /\ \E id \in DOMAIN apply_tasks :
        /\ apply_tasks[id] = "created"
        /\ LET a == apply_single_entity(entity_changes[id], transition)
           IN  /\ apply_tasks' = [apply_tasks EXCEPT ![id] = a.outcome]
               /\ entity_changes' = [entity_changes EXCEPT ![id].entity = a.entity]
               /\ service_calls' = IF a.outcome = "calling"
                                   THEN service_calls (+) SetToBag({a.call})
                                   ELSE service_calls
    /\ UNCHANGED timeVars
    /\ UNCHANGED entityVars
    /\ UNCHANGED <<handler_call, value_call, scenes_at_call, nightlights_boolean, scene_config, scenes,
                   from_scene_id, to_scene_id, results, failed_calls>>

\* a service call returns or raises; the error is logged
ServiceReturn ==
    /\ pc = "apply"
    /\ \E id \in DOMAIN apply_tasks, failed \in BOOLEAN :
        /\ apply_tasks[id] = "calling"
        /\ apply_tasks' = after_service_call(apply_tasks, id, failed)
        /\ failed_calls' = IF failed THEN failed_calls \cup {id} ELSE failed_calls
    /\ UNCHANGED timeVars
    /\ UNCHANGED entityVars
    /\ UNCHANGED <<handler_call, value_call, scenes_at_call, nightlights_boolean, scene_config, scenes,
                   from_scene_id, to_scene_id, results, entity_changes,
                   service_calls>>

\* the gather over the apply tasks returns; extrapolate_entities returns True
GatherApplied ==
    /\ pc = "apply"
    /\ \A id \in DOMAIN apply_tasks : apply_tasks[id] \in FinishedApplyStates
    /\ pc' = "done"
    /\ UNCHANGED timeData
    /\ UNCHANGED entityVars
    /\ UNCHANGED <<handler_call, value_call, sceneVars>>

Next ==
    \/ ActivateNightlights \/ NightlightsReturn
    \/ Activate \/ SolarTimeline \/ ResolveTime \/ Locate \/ Progress
    \/ CallExtrapolate \/ ExtrapolateTask \/ GatherResults
    \/ ApplyStart \/ ServiceReturn \/ GatherApplied

Spec == Init /\ [][Next]_vars

-----------------------------------------------------------------------------
(* The locator and the progress calculation on arbitrary timelines *)

TimelineTimes == {0, HM(0, 30), HM(5, 30), HM(12, 0), HM(23, 0), SecondsPerDay - 1}

EvalTimes == TargetTimes \cup {HM(0, 30), HM(23, 0), HM(23, 30)}

Timelines == [EventNames -> TimelineTimes]

PairTimes == {HM(0, 30), HM(5, 30), HM(12, 0), HM(18, 0), HM(23, 0), HM(23, 30)}

\* the timelines whose five start times rise strictly in name order
RisingTimelines ==
    {tl \in [EventNames -> PairTimes] :
        \A i \in 1..(Len(event_order) - 1) : tl[event_order[i]] < tl[event_order[i + 1]]}

\* get_sun_event and then the progress calculation, on any timeline
InitEvents ==
    /\ pc = "locate"
    /\ sun_events \in Timelines
    /\ final_time \in EvalTimes
    /\ target_seconds = 0
    /\ month = 1
    /\ latitude = 0
    /\ solar_events = <<>>
    /\ solar_events_computed = {}
    /\ scene_dusk_minimum_time_of_day = HM(22, 0)
    /\ transition = 0
    /\ transition_modifier = 0
    /\ time_shift = 0
    /\ current_sun_event = "dawn"
    /\ next_sun_event = "dawn"
    /\ transition_progress = NoProgress
    /\ EntityUnused
    /\ value_call = NoValueCall
    /\ handler_call = NoHandlerCall
    /\ SceneUnused

\* get_scene_transition_progress_percent is called with any two events
CallWithPair ==
    /\ pc = "call"
    /\ \E c \in EventNames, n \in EventNames :
        /\ current_sun_event' = c
        /\ next_sun_event' = n
    /\ pc' = "progress"
    /\ UNCHANGED entityVars
    /\ UNCHANGED <<handler_call, value_call, sceneVars>>
    /\ UNCHANGED <<solar_events_computed, target_seconds, month, latitude, solar_events,
                   scene_dusk_minimum_time_of_day, transition, transition_modifier,
                   sun_events, time_shift, final_time, transition_progress>>

NextEvents == Locate \/ Progress

SpecEvents == InitEvents /\ [][NextEvents]_vars

\* the progress calculation alone, on any pair of events and any time
InitProgress ==
    /\ pc = "call"
    /\ sun_events \in RisingTimelines
    /\ final_time \in EvalTimes
    /\ target_seconds = 0
    /\ month = 1
    /\ latitude = 0
    /\ solar_events = <<>>
    /\ solar_events_computed = {}
    /\ scene_dusk_minimum_time_of_day = HM(22, 0)
    /\ transition = 0
    /\ transition_modifier = 0
    /\ time_shift = 0
    /\ current_sun_event = "dawn"
    /\ next_sun_event = "dawn"
    /\ transition_progress = NoProgress
    /\ EntityUnused
    /\ value_call = NoValueCall
    /\ handler_call = NoHandlerCall
    /\ SceneUnused

NextProgress == CallWithPair \/ Progress

SpecProgress == InitProgress /\ [][NextProgress]_vars

-----------------------------------------------------------------------------
(* The extrapolation of one entity between two scene snapshots *)

ProgressSamples ==
    {Fraction(100 * k, ProgressSlots) : k \in 0..ProgressSlots}
        \cup {Fraction(50, 1), Fraction(100, 3), Fraction(151, 3)}

BrightnessValues ==
    {(255 * k) \div BrightnessSlots : k \in 0..BrightnessSlots} \cup {1, 200}

BrightnessModifiers == {-100, -37, 0, 50, 100}

StateParts == {(ATTR_STATE :> st) : st \in {"on", STATE_OFF}}

ColorParts ==
    { <<>>,
      (ATTR_COLOR_MODE :> ColorMode_COLOR_TEMP) @@ (ATTR_COLOR_TEMP_KELVIN :> 2700),
      (ATTR_COLOR_MODE :> ColorMode_COLOR_TEMP) @@ (ATTR_COLOR_TEMP_KELVIN :> 6500),
      (ATTR_COLOR_MODE :> ColorMode_HS) @@ (ATTR_HS_COLOR :> <<Fraction(30, 1), Fraction(80, 1)>>) }

\* lights as the host reports them: hs with the rgb equivalent beside it and
\* hue and saturation not whole (30.5, 80.2), rgb, rgbw
MoreColorParts ==
    { (ATTR_COLOR_MODE :> ColorMode_HS)
          @@ (ATTR_HS_COLOR :> <<Fraction(61, 2), Fraction(401, 5)>>)
          @@ (ATTR_RGB_COLOR :> <<255, 154, 50>>),
      (ATTR_COLOR_MODE :> ColorMode_RGB) @@ (ATTR_RGB_COLOR :> <<255, 0, 0>>),
      (ATTR_COLOR_MODE :> ColorMode_RGBW) @@ (ATTR_RGBW_COLOR :> <<255, 0, 0, 64>>) }

EffectParts == {<<>>} \cup {(ATTR_EFFECT :> ef) : ef \in {"colorloop", "blink"}}

\* lights that only dim, and lights with colour and effect
EntitySamples ==
    {st @@ (ATTR_BRIGHTNESS :> b) : st \in StateParts, b \in BrightnessValues}
        \cup {st @@ b @@ c @@ ef :
                 st \in StateParts,
                 b \in {<<>>, (ATTR_BRIGHTNESS :> 200)},
                 c \in ColorParts,
                 ef \in EffectParts}
        \cup {st @@ b @@ c :
                 st \in StateParts,
                 b \in {<<>>, (ATTR_BRIGHTNESS :> 200)},
                 c \in MoreColorParts}

InitEntity ==
    /\ pc = "entity"
    /\ from_entity \in EntitySamples
    /\ to_entity \in EntitySamples
    /\ scene_transition_progress_percent \in ProgressSamples
    /\ brightness_modifier \in BrightnessModifiers
    /\ entity_result = NoResult
    /\ value_call = NoValueCall
    /\ handler_call = NoHandlerCall
    /\ SceneUnused
    /\ target_seconds = 0
    /\ month = 1
    /\ latitude = 0
    /\ solar_events = <<>>
    /\ solar_events_computed = {}
    /\ scene_dusk_minimum_time_of_day = HM(22, 0)
    /\ transition = 0
    /\ transition_modifier = 0
    /\ sun_events = NoEvents
    /\ time_shift = 0
    /\ final_time = 0
    /\ current_sun_event = "dawn"
    /\ next_sun_event = "dawn"
    /\ transition_progress = NoProgress

\* one task of extrapolate_entities; the borrowed colour mode is written into
\* the scene's own dict of the entity
ProcessEntity ==
    /\ pc = "entity"
    /\ LET r == process_entity_extrapolation("light.lamp", from_entity, to_entity,
                    scene_transition_progress_percent, brightness_modifier)
       IN  /\ entity_result' = r
           /\ from_entity' = r.from_entity
           /\ to_entity' = r.to_entity
    /\ pc' = "entity_done"
    /\ UNCHANGED timeData
    /\ UNCHANGED <<scene_transition_progress_percent, brightness_modifier>>
    /\ UNCHANGED <<handler_call, value_call, sceneVars>>

NextEntity == ProcessEntity

SpecEntity == InitEntity /\ [][NextEntity]_vars

-----------------------------------------------------------------------------
(* extrapolate_value on its own *)

ValueSamples == {0, 1, 50, 100, 153, 200, 255, 2700, 6500}

ValueProgress ==
    {Fraction(100 * k, ProgressSlots) : k \in 0..ProgressSlots}
        \cup {Fraction(1, 1), Fraction(10, 1), Fraction(25, 1), Fraction(99, 1),
              Fraction(100, 3)}

InitValue ==
    /\ pc = "value"
    /\ value_call \in [from_value : ValueSamples, to_value : ValueSamples,
                        progress : ValueProgress, result : {0}]
    /\ handler_call = NoHandlerCall
    /\ target_seconds = 0
    /\ month = 1
    /\ latitude = 0
    /\ solar_events = <<>>
    /\ solar_events_computed = {}
    /\ scene_dusk_minimum_time_of_day = HM(22, 0)
    /\ transition = 0
    /\ transition_modifier = 0
    /\ sun_events = NoEvents
    /\ time_shift = 0
    /\ final_time = 0
    /\ current_sun_event = "dawn"
    /\ next_sun_event = "dawn"
    /\ transition_progress = NoProgress
    /\ EntityUnused
    /\ SceneUnused

ExtrapolateValue ==
    /\ pc = "value"
    /\ value_call' = [value_call EXCEPT !.result =
            extrapolate_value(value_call.from_value, value_call.to_value,
                              value_call.progress)]
    /\ pc' = "value_done"
    /\ UNCHANGED timeData
    /\ UNCHANGED entityVars
    /\ UNCHANGED <<handler_call, sceneVars>>

NextValue == ExtrapolateValue

SpecValue == InitValue /\ [][NextValue]_vars

-----------------------------------------------------------------------------
(* extrapolate_entities on any two scenes *)

LampSamples ==
    { (ATTR_STATE :> "on") @@ (ATTR_BRIGHTNESS :> 200)
          @@ (ATTR_COLOR_MODE :> ColorMode_COLOR_TEMP) @@ (ATTR_COLOR_TEMP_KELVIN :> 2700),
      (ATTR_STATE :> "on") @@ (ATTR_BRIGHTNESS :> 100)
          @@ (ATTR_COLOR_MODE :> ColorMode_HS) @@ (ATTR_HS_COLOR :> <<Fraction(30, 1), Fraction(80, 1)>>)
          @@ (ATTR_EFFECT :> NoneStr),
      (ATTR_STATE :> "on") @@ (ATTR_BRIGHTNESS :> 255)
          @@ (ATTR_COLOR_MODE :> ColorMode_RGB) @@ (ATTR_RGB_COLOR :> <<255, 0, 0>>),
      (ATTR_STATE :> "on")
          @@ (ATTR_COLOR_MODE :> ColorMode_COLOR_TEMP) @@ (ATTR_COLOR_TEMP_KELVIN :> 6500),
      (ATTR_STATE :> STATE_OFF),
      (ATTR_STATE :> STATE_UNAVAILABLE),
      (ATTR_STATE :> STATE_UNKNOWN) }

PumpSamples == {(ATTR_STATE :> st) : st \in {"on", STATE_OFF, STATE_PROBLEM}}

\* the entities dict of a scene: a lamp or none, a pump or none
SceneSamples ==
    {lamp @@ pump :
        lamp \in {<<>>} \cup {("light.lamp" :> e) : e \in LampSamples},
        pump \in {<<>>} \cup {("switch.pump" :> e) : e \in PumpSamples}}

\* progress values passed to extrapolate_entities; 150 is outside the range
\* get_scene_transition_progress_percent lets through
SceneProgress ==
    {[raised |-> FALSE, num |-> q.num, den |-> q.den] :
        q \in {Fraction(0, 1), Fraction(50, 1), Fraction(151, 3),
                Fraction(100, 1), Fraction(150, 1)}}

InitScenes ==
    /\ pc = "extrapolate"
    /\ current_sun_event = "dawn"
    /\ next_sun_event = "sunrise"
    /\ scene_config = AllConfigured
    /\ \E from_entities \in SceneSamples, to_entities \in SceneSamples :
        scenes = ("scene.dawn" :> from_entities) @@ ("scene.sunrise" :> to_entities)
    /\ transition_progress \in SceneProgress
    /\ transition \in Transitions
    /\ brightness_modifier = 0
    /\ nightlights_boolean = FALSE
    /\ from_scene_id = NoneStr
    /\ to_scene_id = NoneStr
    /\ scenes_at_call = NoScenesPassed
    /\ results = <<>>
    /\ entity_changes = <<>>
    /\ apply_tasks = <<>>
    /\ service_calls = EmptyBag
    /\ failed_calls = {}
    /\ target_seconds = 0
    /\ month = 1
    /\ latitude = 0
    /\ solar_events = <<>>
    /\ solar_events_computed = {}
    /\ scene_dusk_minimum_time_of_day = HM(22, 0)
    /\ transition_modifier = 0
    /\ sun_events = NoEvents
    /\ time_shift = 0
    /\ final_time = 0
    /\ from_entity = <<>>
    /\ to_entity = <<>>
    /\ scene_transition_progress_percent = Fraction(0, 1)
    /\ entity_result = NoResult
    /\ value_call = NoValueCall
    /\ handler_call = NoHandlerCall

NextScenes ==
    \/ CallExtrapolate \/ ExtrapolateTask \/ GatherResults
    \/ ApplyStart \/ ServiceReturn \/ GatherApplied

SpecScenes == InitScenes /\ [][NextScenes]_vars

-----------------------------------------------------------------------------
(* apply_single_entity on any update *)

AppliedEntityIds ==
    {"light.lamp", "switch.pump", "lock.door", "cover.blind", "valve.tap",
     "climate.heater"}

\* the states a scene can record for an entity: the ones apply_single_entity
\* names, and states of other kinds of entity (a thermostat, a media player)
AppliedStates ==
    {"on", STATE_OFF, LockState_LOCKED, LockState_LOCKING, LockState_UNLOCKED,
     LockState_UNLOCKING, LockState_JAMMED, STATE_OPEN, STATE_OPENING,
     STATE_CLOSED, STATE_CLOSING, STATE_UNAVAILABLE, STATE_UNKNOWN,
     STATE_PROBLEM, "heat", "playing"}

\* the updates handed to apply_entities_parallel, one at a time
AppliedUpdates ==
    {(ATTR_ENTITY_ID :> id) @@ (ATTR_STATE :> st) @@ attrs :
        id \in AppliedEntityIds, st \in AppliedStates,
        attrs \in {<<>>, (ATTR_BRIGHTNESS :> 128)}}

InitApply ==
    /\ pc = "apply"
    /\ \E update \in AppliedUpdates :
        /\ entity_changes =
              (update[ATTR_ENTITY_ID] :> [kind |-> "entity", entity |-> update])
        /\ apply_tasks = (update[ATTR_ENTITY_ID] :> "created")
    /\ transition \in Transitions
    /\ nightlights_boolean = FALSE
    /\ scene_config = AllConfigured
    /\ scenes = <<>>
    /\ from_scene_id = NoneStr
    /\ to_scene_id = NoneStr
    /\ scenes_at_call = NoScenesPassed
    /\ results = <<>>
    /\ service_calls = EmptyBag
    /\ failed_calls = {}
    /\ target_seconds = 0
    /\ month = 1
    /\ latitude = 0
    /\ solar_events = <<>>
    /\ solar_events_computed = {}
    /\ scene_dusk_minimum_time_of_day = HM(22, 0)
    /\ transition_modifier = 0
    /\ sun_events = NoEvents
    /\ time_shift = 0
    /\ final_time = 0
    /\ current_sun_event = "dawn"
    /\ next_sun_event = "dawn"
    /\ transition_progress = NoProgress
    /\ EntityUnused
    /\ value_call = NoValueCall
    /\ handler_call = NoHandlerCall

NextApply == ApplyStart \/ ServiceReturn \/ GatherApplied

SpecApply == InitApply /\ [][NextApply]_vars

-----------------------------------------------------------------------------
(* handle_turn_on: the scene_extrapolation.turn_on service (__init__.py) *)

\* the entity ids a call may list: two scenes of the platform, a scene id with
\* a state but no entity in the platform, a scene id without a state, and an
\* id of another domain
HandlerEntityIds ==
    {"scene.evening", "scene.morning", "scene.orphan", "scene.gone", "light.lamp"}

\* entity_id.startswith("scene."), on the ids of the model
starts_with_scene(entity_id) ==
    entity_id \in {"scene.evening", "scene.morning", "scene.orphan", "scene.gone"}

\* hass.states.get(entity_id) returns a state
hass_states == {"scene.evening", "scene.morning", "scene.orphan", "light.lamp"}

\* the entity ids of scene_platform.entities
scene_platform_entities == {"scene.evening", "scene.morning"}

\* the loop body reaches scene.async_activate for the id
reaches_async_activate(entity_id) ==
    /\ starts_with_scene(entity_id)
    /\ entity_id \in hass_states
    /\ entity_id \in scene_platform_entities

\* the three range checks pass
handler_arguments_valid(call) ==
    /\ -100 <= call.brightness_modifier /\ call.brightness_modifier <= 100
    /\ 0 <= call.transition /\ call.transition <= 6553
    /\ -100 <= call.transition_modifier /\ call.transition_modifier <= 100

\* what the handler does with the result of its validation
handler_validated(call) ==
    IF handler_arguments_valid(call)
    THEN [call EXCEPT !.outcome = "running", !.position = 1]
    ELSE [call EXCEPT !.outcome = "rejected"]

HandlerEntityLists ==
    {<<>>} \cup {<<a>> : a \in HandlerEntityIds}
        \cup {<<a, b>> : a \in HandlerEntityIds, b \in HandlerEntityIds}

HandlerModifiers == {-101, -100, 0, 100, 101}
HandlerTransitions == {-1, 0, 6553, 6554}

InitHandler ==
    /\ pc = "handler"
    /\ handler_call \in [entity_ids : HandlerEntityLists,
                          brightness_modifier : HandlerModifiers,
                          transition : HandlerTransitions,
                          transition_modifier : HandlerModifiers,
                          position : {0}, activated : {<<>>}, outcome : {"none"}]
    /\ target_seconds = 0
    /\ month = 1
    /\ latitude = 0
    /\ solar_events = <<>>
    /\ solar_events_computed = {}
    /\ scene_dusk_minimum_time_of_day = HM(22, 0)
    /\ transition = 0
    /\ transition_modifier = 0
    /\ sun_events = NoEvents
    /\ time_shift = 0
    /\ final_time = 0
    /\ current_sun_event = "dawn"
    /\ next_sun_event = "dawn"
    /\ transition_progress = NoProgress
    /\ EntityUnused
    /\ value_call = NoValueCall
    /\ SceneUnused

\* the three validations: an error is logged and the handler returns
HandleTurnOn ==
    /\ pc = "handler"
    /\ handler_call.outcome = "none"
    /\ handler_call' = handler_validated(handler_call)
    /\ pc' = IF handler_call'.outcome = "rejected" THEN "handler_done" ELSE "handler"
    /\ UNCHANGED timeData
    /\ UNCHANGED entityVars
    /\ UNCHANGED <<value_call, sceneVars>>

\* one pass of "for entity_id in entity_ids"; async_activate is awaited with no
\* try around it, and it raises on a configuration error or an invalid
\* transition progress
HandleEntityId ==
    /\ pc = "handler"
    /\ handler_call.outcome = "running"
    /\ handler_call.position <= Len(handler_call.entity_ids)
    /\ LET entity_id == handler_call.entity_ids[handler_call.position]
       IN  IF reaches_async_activate(entity_id)
           THEN \E raised \in BOOLEAN :
                   /\ handler_call' =
                        [handler_call EXCEPT
                            !.activated = Append(@, entity_id),
                            !.position = @ + 1,
                            !.outcome = IF raised THEN "raised" ELSE @]
                   /\ pc' = IF raised THEN "handler_done" ELSE "handler"
           ELSE /\ handler_call' = [handler_call EXCEPT !.position = @ + 1]
                /\ pc' = "handler"
    /\ UNCHANGED timeData
    /\ UNCHANGED entityVars
    /\ UNCHANGED <<value_call, sceneVars>>

\* the loop is over and the handler returns
HandleTurnOnReturn ==
    /\ pc = "handler"
    /\ handler_call.outcome = "running"
    /\ handler_call.position > Len(handler_call.entity_ids)
    /\ handler_call' = [handler_call EXCEPT !.outcome = "returned"]
    /\ pc' = "handler_done"
    /\ UNCHANGED timeData
    /\ UNCHANGED entityVars
    /\ UNCHANGED <<value_call, sceneVars>>

NextHandler == HandleTurnOn \/ HandleEntityId \/ HandleTurnOnReturn

SpecHandler == InitHandler /\ [][NextHandler]_vars

-----------------------------------------------------------------------------
(* Claims *)

TimelineBuilt == pc \in {"shift", "locate", "progress", "extrapolate", "failed"}
Located == pc \in {"progress", "extrapolate", "failed"}
ProgressDone == pc \in {"extrapolate", "failed"}

current_start == sun_events[current_sun_event]
next_start == sun_events[next_sun_event]

InRange(p) == 0 <= p.num /\ p.num <= 100 * p.den

\* C1: for every evaluation time, the pair (current, next) the locator chose
\* gives a progress in [0, 100] and the 'Invalid transition progress' error is
\* never raised.
C1_LocatedPairNeverRaises ==
    ProgressDone => ~transition_progress.raised /\ InRange(transition_progress)

\* C2: after fallback filling and dusk-minimum clamping the five start times
\* satisfy dawn <= sunrise <= noon <= sunset <= dusk.
C2_TimelineOrdered ==
    TimelineBuilt =>
        \A i \in 1..(Len(event_order) - 1) :
            sun_events[event_order[i]] <= sun_events[event_order[i + 1]]

\* the times at which the progress of a pair is defined: between the two
\* starts, around midnight when the pair straddles it
InBracket(c, n, at) ==
    IF c > n THEN at >= c \/ at < n ELSE c <= at /\ at <= n

\* C3 (as stated): for all (current, next, atSeconds) with different start
\* times the progress function returns a value in [0, 100].
C3_AlwaysReturnsInRange ==
    (ProgressDone /\ current_start # next_start) =>
        ~transition_progress.raised /\ InRange(transition_progress)

\* C3 (amended): with different start times the progress function either
\* raises 'Invalid transition progress' or returns a value in [0, 100], and it
\* returns exactly when atSeconds lies between the two starts: in
\* [current, next] for current < next, in [current, 86400) or [0, next) for
\* current > next.
C3_ReturnsInRangeInsideBracket ==
    (ProgressDone /\ current_start # next_start) =>
        /\ transition_progress.raised <=> ~InBracket(current_start, next_start, final_time)
        /\ (pc = "extrapolate") <=> InRange(transition_progress)

C3_Witness ==
    /\ pc = "extrapolate"
    /\ current_start > next_start
    /\ final_time < next_start
    /\ transition_progress.num > 0
    /\ transition_progress.num < 100 * transition_progress.den

\* C4: the current event is the latest event whose start is at or before the
\* time (a time equal to a start selects that event), and the last event of
\* the sorted timeline when the time is before the first event.
C4_CurrentIsLatestAtOrBefore ==
    Located =>
        LET started == {e \in EventNames : sun_events[e] <= final_time}
        IN  IF started = {}
            THEN current_sun_event = sorted_sun_events(sun_events)[Len(event_order)]
            ELSE /\ current_sun_event \in started
                 /\ \A e \in started : sun_events[e] <= current_start

\* C5: the next event is the cyclic successor, in sorted order, of the current
\* event; after the last event of the day it is the first sorted event.
C5_NextIsCyclicSuccessor ==
    Located =>
        /\ next_sun_event =
             sorted_sun_events(sun_events)[
                 (SortRank(sun_events, current_sun_event) % Len(event_order)) + 1]
        /\ (\A e \in EventNames : sun_events[e] < final_time) =>
               next_sun_event = sorted_sun_events(sun_events)[1]

C5_Witness ==
    /\ Located
    /\ \A e \in EventNames : sun_events[e] < final_time
    /\ current_sun_event = "noon"
    /\ next_sun_event = "sunset"
    /\ next_start < current_start

\* C6: for a pair that straddles midnight and a time in [current, 86400) or
\* [0, next), the progress is
\* 100 * ((at - current) mod 86400) / (86400 - current + next).
C6_MidnightWraparound ==
    (ProgressDone /\ current_start > next_start
        /\ (final_time >= current_start \/ final_time < next_start)) =>
        /\ ~transition_progress.raised
        /\ [num |-> transition_progress.num, den |-> transition_progress.den]
             = Fraction(100 * ((final_time - current_start) % SecondsPerDay),
                        SecondsPerDay - current_start + next_start)

\* 23:00 -> 00:30 at 23:30: 1800 of 5400 seconds, one third
C6_Witness ==
    /\ pc = "extrapolate"
    /\ current_start = 82800
    /\ next_start = 1800
    /\ final_time = 84600
    /\ transition_progress.num = 100
    /\ transition_progress.den = 3

EntityDone == pc = "entity_done"
StateSet == EntityDone /\ entity_result.kind \in {"entity", "raised"}

\* C7: the state is the from side's for every progress <= 50 (50 included)
\* and the to side's for every progress > 50.
C7_StateThreshold ==
    StateSet =>
        entity_result.entity[ATTR_STATE] =
            IF scene_transition_progress_percent.num
                 <= 50 * scene_transition_progress_percent.den
            THEN from_entity[ATTR_STATE]
            ELSE to_entity[ATTR_STATE]

C7_Witness ==
    /\ StateSet
    /\ scene_transition_progress_percent = Fraction(50, 1)
    /\ from_entity[ATTR_STATE] = "on"
    /\ to_entity[ATTR_STATE] = STATE_OFF
    /\ entity_result.entity[ATTR_STATE] = "on"

\* C8: the effect is taken from the from side exactly when the state is.
C8_EffectFollowsState ==
    (/\ EntityDone
     /\ entity_result.kind = "entity"
     /\ ATTR_EFFECT \in DOMAIN from_entity
     /\ ATTR_EFFECT \in DOMAIN to_entity
     /\ from_entity[ATTR_EFFECT] # to_entity[ATTR_EFFECT]
     /\ from_entity[ATTR_STATE] # to_entity[ATTR_STATE]) =>
        (entity_result.entity[ATTR_EFFECT] = from_entity[ATTR_EFFECT]
            <=> entity_result.entity[ATTR_STATE] = from_entity[ATTR_STATE])

\* C9: when the two sides declare different color modes, the selected color
\* mode belongs to the side the state was taken from.
C9_ColorModeFollowsState ==
    (/\ EntityDone
     /\ entity_result.kind = "entity"
     /\ ATTR_COLOR_MODE \in DOMAIN from_entity
     /\ ATTR_COLOR_MODE \in DOMAIN to_entity
     /\ from_entity[ATTR_COLOR_MODE] # to_entity[ATTR_COLOR_MODE]
     /\ from_entity[ATTR_STATE] # to_entity[ATTR_STATE]) =>
        (entity_result.final_color_mode = from_entity[ATTR_COLOR_MODE]
            <=> entity_result.entity[ATTR_STATE] = from_entity[ATTR_STATE])

\* the brightness interpolated between the two sides, before the modifier
InterpolatedBrightness ==
    extrapolate_value(Get(from_entity, ATTR_BRIGHTNESS, 0),
                      Get(to_entity, ATTR_BRIGHTNESS, 0),
                      scene_transition_progress_percent)

\* C10: with brightness in [0, 255] on both sides the brightness is computed
\* (no error) and lies in [0, 255]; it is exactly 255 when the modifier would
\* scale it above 255, and 0 when the modifier is -100.
C10_BrightnessClamped ==
    (/\ StateSet
     /\ ATTR_BRIGHTNESS \in DOMAIN from_entity \/ ATTR_BRIGHTNESS \in DOMAIN to_entity) =>
        /\ ATTR_BRIGHTNESS \in DOMAIN entity_result.entity
        /\ entity_result.entity[ATTR_BRIGHTNESS] >= 0
        /\ entity_result.entity[ATTR_BRIGHTNESS] <= 255
        /\ InterpolatedBrightness * (100 + brightness_modifier) > 255 * 100
             => entity_result.entity[ATTR_BRIGHTNESS] = 255
        /\ brightness_modifier = -100 => entity_result.entity[ATTR_BRIGHTNESS] = 0

\* 200 -> 200 at progress 50 with modifier 100: 255, not 400
C10_Witness ==
    /\ StateSet
    /\ Get(from_entity, ATTR_BRIGHTNESS, 0) = 200
    /\ Get(to_entity, ATTR_BRIGHTNESS, 0) = 200
    /\ scene_transition_progress_percent = Fraction(50, 1)
    /\ brightness_modifier = 100
    /\ ATTR_BRIGHTNESS \in DOMAIN entity_result.entity
    /\ entity_result.entity[ATTR_BRIGHTNESS] = 255

ValueDone == pc = "value_done"

\* C11: when (to - from) * progress is divisible by 100, extrapolate_value is
\* exactly from + (to - from) * progress / 100, for from < to and for
\* from > to; progress 0 gives from and progress 100 gives to.
C11_ExactWhenDivisible ==
    ValueDone =>
        LET f == value_call.from_value
            t == value_call.to_value
            p == value_call.progress
            product == (t - f) * p.num
        IN  /\ product % (100 * p.den) = 0 =>
                   value_call.result = f + product \div (100 * p.den)
            /\ p = Fraction(0, 1) => value_call.result = f
            /\ p = Fraction(100, 1) => value_call.result = t

\* from 100 to 0 at 25 percent: 75
C11_Witness ==
    /\ ValueDone
    /\ value_call.from_value = 100
    /\ value_call.to_value = 0
    /\ value_call.progress = Fraction(25, 1)
    /\ value_call.result = 75

Called == pc \in {"tasks", "apply", "done"} /\ from_scene_id # NoneStr
Extrapolated == pc \in {"apply", "done"} /\ from_scene_id # NoneStr

\* the entities of the to scene that the from scene did not have at the call
OnlyInToScene == DOMAIN scenes_at_call.to_scene \ DOMAIN scenes_at_call.from_scene

AtProgress100 == transition_progress.num = 100 * transition_progress.den

\* the attribute that holds the channels of a color mode
ChannelsOf(mode) ==
    CASE mode = ColorMode_COLOR_TEMP -> ATTR_COLOR_TEMP_KELVIN
      [] mode = ColorMode_HS    -> ATTR_HS_COLOR
      [] mode = ColorMode_RGB   -> ATTR_RGB_COLOR
      [] mode = ColorMode_RGBW  -> ATTR_RGBW_COLOR
      [] mode = ColorMode_RGBWW -> ATTR_RGBWW_COLOR

\* C12: an entity present only in the to scene gets {state: off} as its from
\* side, and at progress 100 (no brightness modifier, to side available) its
\* update has the to scene's state, brightness and color channels.
C12_OnlyInToSceneGetsToValues ==
    \A id \in OnlyInToScene :
        LET to_e == scenes_at_call.to_scene[id]
        IN  /\ Called => scenes[from_scene_id][id][ATTR_STATE] = STATE_OFF
            /\ (/\ Extrapolated
                 /\ AtProgress100
                 /\ brightness_modifier = 0
                 /\ to_e[ATTR_STATE] \notin UnappliedStates) =>
                    /\ id \in DOMAIN entity_changes
                    /\ entity_changes[id].kind = "entity"
                    /\ LET update == entity_changes[id].entity
                       IN  /\ update[ATTR_STATE] = to_e[ATTR_STATE]
                           /\ ATTR_BRIGHTNESS \in DOMAIN to_e =>
                                  /\ ATTR_BRIGHTNESS \in DOMAIN update
                                  /\ update[ATTR_BRIGHTNESS] = to_e[ATTR_BRIGHTNESS]
                           /\ ATTR_COLOR_MODE \in DOMAIN to_e =>
                                  /\ ChannelsOf(to_e[ATTR_COLOR_MODE]) \in DOMAIN update
                                  /\ update[ChannelsOf(to_e[ATTR_COLOR_MODE])]
                                        = to_e[ChannelsOf(to_e[ATTR_COLOR_MODE])]

\* C13: after extrapolate_entities has returned, both scenes passed by the
\* caller have the entity ids and the attribute maps they had at the call.
C13_ScenesLeftUnchanged ==
    (pc = "done" /\ from_scene_id # NoneStr) =>
        /\ scenes[from_scene_id] = scenes_at_call.from_scene
        /\ scenes[to_scene_id] = scenes_at_call.to_scene

\* the entities of either scene, and the two sides of one of them at the call
UnionOfScenes == DOMAIN scenes_at_call.from_scene \cup DOMAIN scenes_at_call.to_scene

FromSide(id) ==
    IF id \in DOMAIN scenes_at_call.from_scene
    THEN scenes_at_call.from_scene[id] ELSE (ATTR_STATE :> STATE_OFF)

ToSide(id) ==
    IF id \in DOMAIN scenes_at_call.to_scene
    THEN scenes_at_call.to_scene[id] ELSE (ATTR_STATE :> STATE_OFF)

\* the service calls made for an entity
CallsFor(id) ==
    {c \in BagToSet(service_calls) :
        /\ ATTR_ENTITY_ID \in DOMAIN c.service_data
        /\ c.service_data[ATTR_ENTITY_ID] = id}

NumberOfCallsFor(id) ==
    IF CallsFor(id) = {} THEN 0
    ELSE CopiesIn(CHOOSE c \in CallsFor(id) : TRUE, service_calls)
            + Cardinality(CallsFor(id)) - 1

\* C14: no service call is made for an entity whose from-side or to-side state
\* is unavailable, unknown, problem or jammed, whatever the progress, and the
\* tasks of all other entities have run when extrapolate_entities returns.
C14_UnavailableEitherSideNeverDispatched ==
    Called =>
        /\ \A id \in UnionOfScenes :
               (FromSide(id)[ATTR_STATE] \in UnappliedStates
                    \/ ToSide(id)[ATTR_STATE] \in UnappliedStates)
                  => CallsFor(id) = {}
        /\ pc = "done" => DOMAIN results = UnionOfScenes

\* C15: when extrapolate_entities has returned, every entity of either scene
\* whose state is present and available on both sides has exactly one update
\* and exactly one service call, whatever other attributes the sides have.
C15_OneUpdateAndOneCallPerEntity ==
    (pc = "done" /\ from_scene_id # NoneStr /\ InRange(transition_progress)) =>
        \A id \in UnionOfScenes :
            (FromSide(id)[ATTR_STATE] \notin UnappliedStates
                /\ ToSide(id)[ATTR_STATE] \notin UnappliedStates) =>
                /\ id \in DOMAIN entity_changes
                /\ entity_changes[id].kind = "entity"
                /\ NumberOfCallsFor(id) = 1

\* C16: no service call is made, and no apply_single_entity task has started,
\* before every extrapolation task of the call has finished.
C16_NoDispatchBeforeAllExtrapolated ==
    (\/ service_calls # EmptyBag
     \/ \E id \in DOMAIN apply_tasks : apply_tasks[id] # "created") =>
        DOMAIN results = DOMAIN scenes[from_scene_id]

\* a call has been made for one entity after the tasks of two had finished
C16_Witness ==
    /\ pc = "apply"
    /\ Cardinality(DOMAIN results) = 2
    /\ Cardinality(DOMAIN entity_changes) = 2
    /\ \E id \in DOMAIN apply_tasks : apply_tasks[id] = "calling"
    /\ \E id \in DOMAIN apply_tasks : apply_tasks[id] = "created"

\* the updates apply_single_entity makes a call for
Dispatchable ==
    {id \in DOMAIN entity_changes :
        /\ entity_changes[id].kind = "entity"
        /\ entity_changes[id].entity[ATTR_STATE] \notin UnappliedStates}

\* C17: whichever service calls fail, no update is dispatched more than once,
\* the task of a failed call returns (nothing is raised), no task is
\* cancelled, and when extrapolate_entities has returned every update has
\* been dispatched once.
C17_FailedCallsLeaveSiblingsAlone ==
    Extrapolated =>
        /\ \A id \in DOMAIN entity_changes : NumberOfCallsFor(id) <= 1
        /\ \A id \in failed_calls : apply_tasks[id] = "returned"
        /\ \A id \in DOMAIN apply_tasks : apply_tasks[id] # "cancelled"
        /\ pc = "done" => \A id \in Dispatchable : NumberOfCallsFor(id) = 1

\* two updates; the call of one failed, the other was still dispatched and
\* extrapolate_entities returned
C17_Witness ==
    /\ pc = "done"
    /\ Cardinality(Dispatchable) = 2
    /\ Cardinality(failed_calls) = 1
    /\ \A id \in Dispatchable : NumberOfCallsFor(id) = 1

\* extrapolate_number raised for the brightness of the entity
NumberInvariantViolated(id) ==
    /\ id \in DOMAIN results
    /\ results[id].kind = "raised"
    /\ extrapolate_number(Get(FromSide(id), ATTR_BRIGHTNESS, 0),
                          Get(ToSide(id), ATTR_BRIGHTNESS, 0),
                          transition_progress).raised

ConfigResolves == \A e \in EventNames : scene_config[e] \in DOMAIN LoadedScenes

\* C19 (as stated): with a scene id absent or unresolvable, an activation
\* that has started stops with the configuration error and makes no service
\* call.
C19_UnresolvedSceneFailsActivation ==
    (pc # "idle" /\ ~ConfigResolves) =>
        /\ pc \in {"solar", "config_error"}
        /\ service_calls = EmptyBag

\* C19 (amended): the same, for an activation with the nightlights boolean
\* off; with the boolean on the activation calls scene.turn_on for the
\* nightlights scene and returns without looking at the scene ids.
C19_UnresolvedSceneFailsUnlessNightlights ==
    (pc # "idle" /\ ~ConfigResolves) =>
        IF nightlights_boolean
        THEN pc \in {"nightlights", "done"}
        ELSE /\ pc \in {"solar", "config_error"}
             /\ service_calls = EmptyBag

C19_Witness ==
    /\ pc = "config_error"
    /\ scene_config["dusk"] = "scene.deleted"
    /\ ~nightlights_boolean
    /\ service_calls = EmptyBag

\* C20: a turn_off call for a light carries the entity id and the transition
\* and nothing else; no other call carries an attribute whose value is None.
C20_TurnOffDataIsMinimal ==
    \A c \in BagToSet(service_calls) :
        IF c.domain = LIGHT_DOMAIN /\ c.service = SERVICE_TURN_OFF
        THEN /\ DOMAIN c.service_data = {ATTR_ENTITY_ID, ATTR_TRANSITION}
             /\ c.service_data[ATTR_TRANSITION] = transition
        ELSE \A key \in DOMAIN c.service_data :
                key = ATTR_EFFECT => c.service_data[key] # NoneStr

\* the update of the lamp has a brightness and a color temperature, the
\* turn_off call has neither
C20_Witness ==
    /\ "light.lamp" \in DOMAIN entity_changes
    /\ entity_changes["light.lamp"].kind = "entity"
    /\ ATTR_BRIGHTNESS \in DOMAIN entity_changes["light.lamp"].entity
    /\ ATTR_COLOR_TEMP_KELVIN \in DOMAIN entity_changes["light.lamp"].entity
    /\ \E c \in CallsFor("light.lamp") :
           /\ c.service = SERVICE_TURN_OFF
           /\ DOMAIN c.service_data = {ATTR_ENTITY_ID, ATTR_TRANSITION}

\* an activation without nightlights whose evaluation time has been resolved
Shifted ==
    /\ ~nightlights_boolean
    /\ pc \in {"locate", "progress", "extrapolate", "failed", "tasks", "apply", "done"}

\* an activation without nightlights whose five SunEvent objects exist
SunEventsBuilt == pc = "shift" \/ Shifted

\* C21: with transition_modifier = 0 the time shift is 0 at every time and on
\* every timeline, and the evaluation time is (now + transition) mod 86400.
C21_ZeroModifierNoShift ==
    (Shifted /\ transition_modifier = 0) =>
        /\ time_shift = 0
        /\ final_time = (target_seconds + transition) % SecondsPerDay

\* 23:59:59 with a transition of 6553 seconds: 01:49:12 the next day
C21_Witness ==
    /\ Shifted
    /\ transition_modifier = 0
    /\ target_seconds = SecondsPerDay - 1
    /\ transition = 6553
    /\ time_shift = 0
    /\ final_time = 6552

\* the start the modifier pulls the time toward
ShiftTarget ==
    IF transition_modifier > 0 THEN sun_events["noon"]
    ELSE IF target_seconds < sun_events["noon"] THEN sun_events["dawn"]
    ELSE sun_events["dusk"]

\* C22: for a modifier m # 0 the shift is round((target - now) * |m| / 100),
\* so it has the sign of target - now and is at most |target - now| in size.
C22_ShiftIsRoundedShare ==
    (Shifted /\ transition_modifier # 0) =>
        LET delta == ShiftTarget - target_seconds
        IN  /\ time_shift = RoundHalfEven(delta * Abs(transition_modifier), 100)
            /\ time_shift * delta >= 0
            /\ Abs(time_shift) <= Abs(delta)

\* the event whose scene a modifier of +100 or -100 selects
ReferenceEvent ==
    IF transition_modifier > 0 THEN "noon"
    ELSE IF target_seconds < sun_events["noon"] THEN "dawn"
    ELSE "dusk"

\* the update of an entity has the state and the brightness the scene gives it
AppliesScene(scene) ==
    \A id \in DOMAIN scene :
        /\ id \in DOMAIN entity_changes
        /\ entity_changes[id].kind = "entity"
        /\ entity_changes[id].entity[ATTR_STATE] = scene[id][ATTR_STATE]
        /\ ATTR_BRIGHTNESS \in DOMAIN scene[id] =>
               /\ ATTR_BRIGHTNESS \in DOMAIN entity_changes[id].entity
               /\ entity_changes[id].entity[ATTR_BRIGHTNESS] = scene[id][ATTR_BRIGHTNESS]

\* C23: with transition 0 and a modifier of +100 the activation applies the
\* noon scene at every time, with -100 the dawn scene before noon and the dusk
\* scene from noon on, and the activation does not fail.
C23_FullModifierAppliesReferenceScene ==
    (/\ Shifted
     /\ transition = 0
     /\ transition_modifier \in {-100, 100}) =>
        /\ pc # "failed"
        /\ pc = "done" => AppliesScene(LoadedScenes[scene_config[ReferenceEvent]])

\* dusk as computed or filled, in seconds since midnight, and after the clamp
ComputedDusk == solar_events["dusk"] % SecondsPerDay
ClampedDusk == Max(ComputedDusk, scene_dusk_minimum_time_of_day)

\* C24: dusk.start_time is the larger of the computed or fallback dusk and
\* the configured minimum, and that value is the one the locator, the
\* progress calculation and the time shift work with.
C24_DuskClampedUpward ==
    SunEventsBuilt =>
        /\ sun_events["dusk"] = ClampedDusk
        /\ sun_events["dusk"] >= scene_dusk_minimum_time_of_day
        /\ sun_events["dusk"] >= ComputedDusk
        /\ (/\ Shifted
            /\ transition_modifier = -100
            /\ target_seconds >= sun_events["noon"]) =>
               time_shift = ClampedDusk - target_seconds
        /\ (/\ pc \in {"progress", "extrapolate", "tasks", "apply", "done"}
            /\ final_time > sun_events["sunset"]
            /\ final_time < ClampedDusk
            /\ \A e \in EventNames \ {"dusk"} : sun_events[e] <= sun_events["sunset"]) =>
               /\ current_sun_event = "sunset"
               /\ next_sun_event = "dusk"
        /\ (/\ pc \in {"extrapolate", "tasks", "apply", "done"}
            /\ current_sun_event = "sunset"
            /\ next_sun_event = "dusk"
            /\ sun_events["sunset"] < ClampedDusk) =>
               [num |-> transition_progress.num, den |-> transition_progress.den]
                   = Fraction(100 * (final_time - sun_events["sunset"]),
                              ClampedDusk - sun_events["sunset"])

\* dusk computed at 18:30, minimum 22:00: at 20:00 the time is half way from
\* sunset (18:00) to dusk
C24_Witness ==
    /\ pc = "extrapolate"
    /\ ComputedDusk = HM(18, 30)
    /\ sun_events["dusk"] = HM(22, 0)
    /\ final_time = HM(20, 0)
    /\ current_sun_event = "sunset"
    /\ next_sun_event = "dusk"
    /\ transition_progress.num = 50
    /\ transition_progress.den = 1

\* C26: an event other than dawn that sun() did not return starts at least
\* 30 minutes after the event before it, and when sun() returned nothing the
\* five start times are the seasonal table of the hemisphere and month.
C26_FallbackKeepsHalfHourGap ==
    SunEventsBuilt =>
        /\ \A e \in DOMAIN previous_events \ solar_events_computed :
               sun_events[e] >= sun_events[previous_events[e]] + HM(0, 30)
        /\ solar_events_computed = {} => sun_events = fallback_times(latitude, month)

\* C29: with the nightlights boolean on, the activation makes one call,
\* scene.turn_on for the nightlights scene, builds no timeline, resolves no
\* scene, extrapolates nothing and returns, whether or not the call failed
\* and whether or not the five scene ids resolve.
C29_NightlightsInsteadOfExtrapolation ==
    nightlights_boolean =>
        /\ pc \in {"nightlights", "done"}
        /\ service_calls = SetToBag({
               [domain |-> SCENE_DOMAIN, service |-> SERVICE_TURN_ON,
                service_data |-> (ATTR_ENTITY_ID :> NIGHTLIGHTS_SCENE)]})
        /\ sun_events = NoEvents
        /\ solar_events = <<>>
        /\ scenes = <<>>
        /\ results = <<>>
        /\ entity_changes = <<>>

\* the call failed, the dawn scene is not configured, the activation returned
C29_Witness ==
    /\ nightlights_boolean
    /\ pc = "done"
    /\ failed_calls = {NIGHTLIGHTS_SCENE}
    /\ scene_config["dawn"] = NoneStr

HandlerDone == pc = "handler_done"

\* the listed ids that resolve to a scene entity, in the order listed
ResolvingIds == SelectSeq(handler_call.entity_ids, reaches_async_activate)

\* C25: the handler activates no scene when one of the three arguments is out
\* of range, and when all are in range it calls async_activate once for each
\* listed id that resolves to a scene entity.
C25_HandlerValidatesThenActivatesEach ==
    /\ ~handler_arguments_valid(handler_call) => handler_call.activated = <<>>
    /\ (HandlerDone /\ handler_arguments_valid(handler_call)) =>
           handler_call.activated = ResolvingIds

\* the actions the call to the host may name
DefinedServices ==
    {SERVICE_TURN_ON, SERVICE_TURN_OFF, SERVICE_LOCK, SERVICE_UNLOCK,
     "open_cover", "close_cover", "open_valve", "close_valve"}

\* C30: every call apply_single_entity makes names one of turn_on, turn_off,
\* lock, unlock, open_cover, close_cover, open_valve, close_valve, whatever
\* the state of the update, and never None.
C30_ServiceIsDefined ==
    \A c \in BagToSet(service_calls) :
        /\ c.service # NoneStr
        /\ c.service \in DefinedServices

\* abs(from - abs(from - to) * progress / 100), rounded
AbsChannelFormula(from_value, to_value, p) ==
    RoundHalfEven(Abs(from_value * 100 * p.den - Abs(from_value - to_value) * p.num),
                  100 * p.den)

ColorFamilies ==
    {ATTR_COLOR_TEMP_KELVIN, ATTR_HS_COLOR, ATTR_RGB_COLOR, ATTR_RGBW_COLOR,
     ATTR_RGBWW_COLOR}

EmittedFamilies ==
    IF EntityDone /\ entity_result.kind = "entity"
    THEN DOMAIN entity_result.entity \cap ColorFamilies
    ELSE {}

OneFamilyOfSelectedMode ==
    /\ Cardinality(EmittedFamilies) <= 1
    /\ \A a \in EmittedFamilies : a = ChannelsOf(entity_result.final_color_mode)

\* the side that has the family when exactly one side has it
OnlySideWith(a) ==
    CASE a \in DOMAIN entity_result.from_entity /\ a \notin DOMAIN entity_result.to_entity
            -> <<entity_result.from_entity[a]>>
      [] a \notin DOMAIN entity_result.from_entity /\ a \in DOMAIN entity_result.to_entity
            -> <<entity_result.to_entity[a]>>
      [] OTHER -> <<>>

\* a family value with every channel rounded to the nearest integer, a half
\* going to the even neighbour; integer channels are their own rounding
RoundedChannels(a, value) ==
    IF a = ATTR_HS_COLOR
    THEN [i \in DOMAIN value |-> Fraction(RoundHalfEven(value[i].num, value[i].den), 1)]
    ELSE value

\* C27 (as stated): an update carries at most one color family, the selected
\* color mode's, and when exactly one side has that family the update carries
\* that side's value in full, at every progress.
C27_OneFamilyOtherSideInFull ==
    /\ OneFamilyOfSelectedMode
    /\ \A a \in EmittedFamilies :
          \A value \in {OnlySideWith(a)[i] : i \in DOMAIN OnlySideWith(a)} :
              entity_result.entity[a] = value

\* C27 (amended): an update carries at most one color family, the selected
\* color mode's, and when exactly one side has that family the update carries
\* that side's value with every channel rounded to the nearest integer, at
\* every progress.
C27_OneFamilyOtherSideRounded ==
    /\ OneFamilyOfSelectedMode
    /\ \A a \in EmittedFamilies :
          \A value \in {OnlySideWith(a)[i] : i \in DOMAIN OnlySideWith(a)} :
              entity_result.entity[a] = RoundedChannels(a, value)

\* hs (30.5, 80.2) on the from side only, half way: the update carries (30, 80)
C27_Witness ==
    /\ EntityDone
    /\ entity_result.kind = "entity"
    /\ scene_transition_progress_percent = Fraction(50, 1)
    /\ entity_result.final_color_mode = ColorMode_HS
    /\ ATTR_HS_COLOR \in DOMAIN entity_result.from_entity
    /\ ATTR_HS_COLOR \notin DOMAIN entity_result.to_entity
    /\ entity_result.from_entity[ATTR_HS_COLOR] = <<Fraction(61, 2), Fraction(401, 5)>>
    /\ EmittedFamilies = {ATTR_HS_COLOR}
    /\ entity_result.entity[ATTR_HS_COLOR] = <<Fraction(30, 1), Fraction(80, 1)>>

====
